---- MODULE Spec2Model ----
(***************************************************************************)
(* A model of market_monitor.py: the MarketMonitor pipeline that fetches   *)
(* the paginated net-value history of each fund with a Selenium driver,    *)
(* wrapped in a tenacity retry, keeps an append-only CSV cache per fund,   *)
(* computes RSI / MA50 indicators and writes one report row per fund.      *)
(*                                                                         *)
(* A record is identified by its date (a positive integer, day number);    *)
(* its net value is Val(date).  The remote site of a fund serves the dates *)
(* 1..n newest first in pages of FullPage rows.                            *)
(***************************************************************************)
EXTENDS Integers, Sequences, FiniteSets, TLC

\* ---- bounds of the model ------------------------------------------------
MaxFunds == 2          \* at most this many fund codes are extracted
MaxRuns == 2           \* number of runs of the script against the same fund_data directory
MaxPublish == 1        \* the remote publishes this many records, or a page more, between two runs
MaxFaultPage == 3      \* the environment injects page faults on pages 1..MaxFaultPage only

\* ---- constants of the program -------------------------------------------
FullPage == 20
max_pages == 200
StopAfterAttempt == 3
MinRows == 14
TailRows == 100
RsiWindow == 14
MaWindow == 50
NoDate == 0            \* latest_local_date = None

Codes == 1..MaxFunds

\* lengths of the remote history when the first run starts: nothing, a short
\* series, exactly one full page, and pages of sizes [20, 20, 15]
InitLens == {0, 5, FullPage, 2 * FullPage + 15}

\* the site of the first fund: any of these histories served page by page, or
\* one full page served again for every page index; the sites of the other
\* funds: three pages (even codes) or a short history (odd codes)
Remotes(c) ==
  IF c = 1
  THEN [n : InitLens, mode : {"paged"}] \cup {[n |-> FullPage, mode |-> "repeat"]}
  ELSE [n : {IF c % 2 = 0 THEN 2 * FullPage + 15 ELSE 5}, mode : {"paged"}]

\* records the site publishes between two runs: none, a few, or more than a page
Publish == {0, MaxPublish, FullPage + MaxPublish}

VARIABLES
  run,               \* number of the current run of the script
  report_file,       \* analysis_report.md: the number of codes in it, -1 when missing
  faulty_call,       \* the environment has injected faults in a call of the fetch
  pc,                \* position of the script
  remote,            \* per fund: the history the site serves
  cache,             \* per fund: the file fund_data/<code>.csv
  fund_codes,        \* self.fund_codes
  fund_data,         \* self.fund_data
  i,                 \* loop index of get_fund_data (enumerate, from 1)
  report,            \* rows written by generate_report
  attempt_number,    \* tenacity: number of the current attempt
  latest_local_date, \* locals of _get_fund_data_from_eastmoney
  local_df,
  driver,            \* the local variable driver holds a handle (is not None)
  open_handles,      \* browser handles started and not yet quit
  nav,               \* the net values the site publishes, as a curve over the dates
  all_data,
  page_index,
  found_new_data,
  exc,               \* exception pending in / escaping from the attempt ("none")
  ret,               \* the DataFrame the attempt returns (dates, ascending)
  delivered,         \* what the decorated call handed to get_fund_data
  requested,         \* history: page indexes requested in this attempt
  fault,             \* history: fault the environment injected in this attempt
  attempts,          \* history: outcome of each attempt of the current call
  last               \* history: per fund, the previous complete call

vars == <<run, report_file, faulty_call, pc, remote, cache, fund_codes,
          fund_data, i, report,
          attempt_number, latest_local_date, local_df, driver, all_data,
          page_index, found_new_data, exc, ret, delivered, requested, fault,
          attempts, last, open_handles, nav>>

\* ---- helpers on sequences (pandas operations) ---------------------------

Range(s) == {s[k] : k \in DOMAIN s}

\* the elements of a finite set of integers, ascending
SetToSeq(S) ==
  LET ranked == {<<Cardinality({y \in S : y < x}) + 1, x>> : x \in S}
  IN  [k \in 1..Cardinality(S) |-> (CHOOSE p \in ranked : p[1] = k)[2]]

RECURSIVE Concat(_)
\* pd.concat(all_data, ignore_index=True)
Concat(dfs) ==
  IF dfs = <<>> THEN <<>>
  ELSE IF Len(dfs) = 1 THEN dfs[1]
  ELSE LET mid == Len(dfs) \div 2
       IN  Concat(SubSeq(dfs, 1, mid)) \o Concat(SubSeq(dfs, mid + 1, Len(dfs)))

FirstIdx(s, v) == CHOOSE k \in DOMAIN s : s[k] = v /\ \A j \in 1..(k - 1) : s[j] # v

\* a bug: duplicates are kept
KeepDuplicates(s) == s

\* df.drop_duplicates(subset=['date']): the first row of every date is kept
DropDuplicates(s) ==
  LET idx == SetToSeq({FirstIdx(s, v) : v \in Range(s)})
  IN  [k \in 1..Len(idx) |-> s[idx[k]]]

\* df.sort_values(by='date', ascending=True): row j moves to the position
\* that counts the rows below it and the equal rows up to it
SortValues(s) ==
  LET pos(j) == Cardinality({k \in DOMAIN s : s[k] < s[j] \/ (s[k] = s[j] /\ k <= j)})
      placed == {<<pos(j), s[j]>> : j \in DOMAIN s}
  IN  [k \in 1..Len(s) |-> (CHOOSE p \in placed : p[1] = k)[2]]

\* df.tail(k)
Tail_(s, k) == IF Len(s) <= k THEN s ELSE SubSeq(s, Len(s) - k + 1, Len(s))

\* the net value published for a date: a curve that rises and falls from day
\* to day, or one that moves by x a day up to date a + 1 and by y a day after
Val(d) ==
  IF nav.kind = "wave" THEN 100 + ((d * d) % 7) - (d % 3)
  ELSE 100 + nav.x * (IF d - 1 < nav.a THEN d - 1 ELSE nav.a)
           + nav.y * (IF d - 1 > nav.a THEN d - 1 - nav.a ELSE 0)


\* ---- the remote site ------------------------------------------------------

\* rows (dates, newest first) the site holds for page p of a history 1..n
PageOf(n, p) ==
  LET hi  == n - FullPage * (p - 1)
      cnt == IF hi <= 0 THEN 0 ELSE IF hi >= FullPage THEN FullPage ELSE hi
  IN  [k \in 1..cnt |-> hi - k + 1]

\* a site in mode "repeat" ignores the p parameter and serves page 1 again
PageRows(r, p) == IF r.mode = "repeat" THEN PageOf(r.n, 1) ELSE PageOf(r.n, p)

\* what a page load can do: the table with its rows; a table whose rows all
\* fail to parse (dropna leaves nothing); an empty table; pd.read_html or
\* find_element raising; driver.get raising a WebDriverException that is no
\* timeout; driver.get / wait.until raising TimeoutException
Responses(p, may_fail) ==
  IF p <= MaxFaultPage /\ may_fail
  THEN {"rows", "garbled", "empty", "parse", "transport", "timeout"}
  ELSE {"rows"}

\* what starting the driver and driver.quit() can do
DriverStarts(may_fail) ==
  IF may_fail THEN {"ok", "WebDriverException", "Exception"} ELSE {"ok"}

DriverQuits(may_fail) ==
  IF may_fail THEN {"ok", "WebDriverException"} ELSE {"ok"}

\* the class of a fault: a timeout or transport failure, a page that cannot
\* be parsed or holds nothing, another error
FaultClass(kind) ==
  CASE kind \in {"timeout", "transport", "WebDriverException"} -> "transient"
    [] kind \in {"parse", "empty", "garbled"} -> "format"
    [] kind \in {"rows", "ok"} -> "none"
    [] OTHER -> "other"

\* ---- the cache file -------------------------------------------------------

NoFile == [exists |-> FALSE, recs |-> <<>>]

Max(S) == CHOOSE x \in S : \A y \in S : x >= y

\* a bug: the latest date of the file is not read
NoLocalDate(file) == NoDate

\* _get_latest_local_date: the maximum date of the file, None when there is
\* no file or the file holds no record
LatestLocalDate(file) ==
  IF file.exists /\ file.recs # <<>> THEN Max(Range(file.recs)) ELSE NoDate

\* _get_latest_local_date: the DataFrame read from the file
LocalDf(file) == IF file.exists /\ file.recs # <<>> THEN file.recs ELSE <<>>

\* a bug: the file is rewritten with the new rows
SaveOverwrite(file, new_data_df) == [exists |-> TRUE, recs |-> new_data_df]

\* _save_to_local_file: append without header, or create the file
SaveToLocalFile(file, new_data_df) ==
  IF file.exists
  THEN [exists |-> TRUE, recs |-> file.recs \o new_data_df]
  ELSE [exists |-> TRUE, recs |-> new_data_df]

\* a bug: the row of the latest local date counts as new
IsNewOrSame(d, latest) == d >= latest

\* df['date'].dt.date > latest_local_date
IsNew(d, latest) == d > latest

\* ---- tenacity ---------------------------------------------------------------

\* a bug: every exception is retried
RetryAlways(e) == TRUE

\* retry_if_exception_type((TimeoutException, WebDriverException))
RetryIf(e) == e \in {"TimeoutException", "WebDriverException"}

\* stop_after_attempt(3)
Stop(n) == n >= StopAfterAttempt

\* ---- indicators (get_fund_data) ---------------------------------------------

\* a number is a pair <<numerator, denominator>>; NaN has denominator 0
NaN == <<0, 0>>

IsNaN(x) == x[2] = 0

None == [none |-> TRUE, latest_net_value |-> 0, rsi |-> NaN, ma_ratio |-> NaN]

RECURSIVE SumOver(_, _, _)
\* f[lo] + ... + f[hi]
SumOver(f, lo, hi) ==
  IF lo > hi THEN 0
  ELSE IF lo = hi THEN f[lo]
  ELSE LET mid == (lo + hi) \div 2
       IN  SumOver(f, lo, mid) + SumOver(f, mid + 1, hi)

\* df['net_value']
NetValues(df) == [k \in DOMAIN df |-> Val(df[k])]

\* delta.where(delta > 0, 0): the first delta is NaN and becomes 0
Gains(v) ==
  [k \in DOMAIN v |-> IF k > 1 /\ v[k] - v[k - 1] > 0 THEN v[k] - v[k - 1] ELSE 0]

\* -delta.where(delta < 0, 0)
Losses(v) ==
  [k \in DOMAIN v |-> IF k > 1 /\ v[k] - v[k - 1] < 0 THEN v[k - 1] - v[k] ELSE 0]

\* s.rolling(window=w, min_periods=1) at the last position: the rows it covers
WindowLo(len, w) == IF len - w + 1 < 1 THEN 1 ELSE len - w + 1

\* a bug: avg_loss is used without replace(0, np.nan); a gain over a loss of 0
\* is inf and the rsi is 100
RsiWithoutReplace(v, k) ==
  LET lo == WindowLo(k, RsiWindow)
      g  == SumOver(Gains(v), lo, k)
      l  == SumOver(Losses(v), lo, k)
  IN  <<100 * g, g + l>>

\* rsi at position k: 100 - 100 / (1 + avg_gain / avg_loss), the averages over
\* the same rows, NaN when avg_loss is 0
RsiAt(v, k) ==
  LET lo == WindowLo(k, RsiWindow)
      g  == SumOver(Gains(v), lo, k)
      l  == SumOver(Losses(v), lo, k)
  IN  IF l = 0 THEN NaN ELSE <<100 * g, g + l>>

\* rsi.iloc[-1]
LatestRsi(v) == RsiAt(v, Len(v))

\* latest_net_value / ma50.iloc[-1], window min(50, len(df))
LatestMaRatio(v) ==
  LET w   == IF Len(v) < MaWindow THEN Len(v) ELSE MaWindow
      lo  == WindowLo(Len(v), w)
      sum == SumOver(v, lo, Len(v))
      cnt == Len(v) - lo + 1
  IN  IF sum = 0 THEN NaN ELSE <<v[Len(v)] * cnt, sum>>

\* the entry of self.fund_data computed from a DataFrame of at least 14 rows
Snapshot(df) ==
  LET v == NetValues(SortValues(df))
  IN  [none |-> FALSE, latest_net_value |-> v[Len(v)],
       rsi |-> LatestRsi(v), ma_ratio |-> LatestMaRatio(v)]

\* df is not None and not df.empty and len(df) >= 14
Enough(df) == df # <<>> /\ Len(df) >= MinRows

\* self.fund_data[fund_code] = v
Record(fd, c, v) == [x \in DOMAIN fd \cup {c} |-> IF x = c THEN v ELSE fd[x]]

\* ---- generate_report ---------------------------------------------------------

\* x > a / b and x < a / b for a number x that is not NaN
Gt(x, a, b) == x[1] * b > a * x[2]

Lt(x, a, b) == x[1] * b < a * x[2]

\* a bug: the rule of accumulate is tried first
AdviceAccumulateFirst(rsi, ma_ratio) ==
  IF ~IsNaN(rsi) /\ Lt(rsi, 30, 1)
  THEN "accumulate"
  ELSE IF (~IsNaN(rsi) /\ Gt(rsi, 70, 1)) \/ (~IsNaN(ma_ratio) /\ Gt(ma_ratio, 12, 10))
  THEN "wait_for_pullback"
  ELSE IF (IsNaN(rsi) \/ ~Gt(rsi, 70, 1))
          /\ (IsNaN(ma_ratio) \/ (~Lt(ma_ratio, 8, 10) /\ ~Gt(ma_ratio, 12, 10)))
  THEN "buy_in_batches"
  ELSE "observe"

\* a bug: the rule of buy_in_batches asks for two values that are not NaN
AdviceDefinedOnly(rsi, ma_ratio) ==
  IF (~IsNaN(rsi) /\ Gt(rsi, 70, 1)) \/ (~IsNaN(ma_ratio) /\ Gt(ma_ratio, 12, 10))
  THEN "wait_for_pullback"
  ELSE IF (~IsNaN(rsi) /\ ~Lt(rsi, 30, 1) /\ ~Gt(rsi, 70, 1))
          /\ (~IsNaN(ma_ratio) /\ ~Lt(ma_ratio, 8, 10) /\ ~Gt(ma_ratio, 12, 10))
  THEN "buy_in_batches"
  ELSE IF ~IsNaN(rsi) /\ Lt(rsi, 30, 1)
  THEN "accumulate"
  ELSE "observe"

\* the advice column
Advice(rsi, ma_ratio) ==
  IF (~IsNaN(rsi) /\ Gt(rsi, 70, 1)) \/ (~IsNaN(ma_ratio) /\ Gt(ma_ratio, 12, 10))
  THEN "wait_for_pullback"
  ELSE IF (IsNaN(rsi) \/ (~Lt(rsi, 30, 1) /\ ~Gt(rsi, 70, 1)))
          /\ (IsNaN(ma_ratio) \/ (~Lt(ma_ratio, 8, 10) /\ ~Gt(ma_ratio, 12, 10)))
  THEN "buy_in_batches"
  ELSE IF ~IsNaN(rsi) /\ Lt(rsi, 30, 1)
  THEN "accumulate"
  ELSE "observe"

\* a bug: a fund without data gets no row
RowOrNothing(c, fd) ==
  IF c \in DOMAIN fd /\ ~fd[c].none
  THEN <<[code |-> c, failed |-> FALSE, advice |-> Advice(fd[c].rsi, fd[c].ma_ratio)]>>
  ELSE <<>>

\* the row(s) written for one fund code: its indicators, or the failure marker
Row(c, fd) ==
  IF c \in DOMAIN fd /\ ~fd[c].none
  THEN <<[code |-> c, failed |-> FALSE, advice |-> Advice(fd[c].rsi, fd[c].ma_ratio)]>>
  ELSE <<[code |-> c, failed |-> TRUE, advice |-> "observe"]>>

\* the row written when no fund code was extracted
Placeholder == [code |-> 0, failed |-> TRUE, advice |-> "check_report"]

RECURSIVE Rows(_, _)
\* the rows of the table, in the order of fund_codes
Rows(codes, fd) ==
  IF codes = <<>> THEN <<>>
  ELSE Rows(SubSeq(codes, 1, Len(codes) - 1), fd) \o Row(codes[Len(codes)], fd)

\* ---- the state after construction ------------------------------------------

\* the curve of the net values of every site
Wave == [kind |-> "wave", a |-> 0, x |-> 0, y |-> 0]

NoCall ==
  [valid |-> FALSE, remote |-> [n |-> 0, mode |-> "paged"], cache |-> NoFile,
   delivered |-> "none", ret |-> <<>>]

Init ==
  /\ run = 1
  /\ report_file \in -1..MaxFunds
  /\ faulty_call = FALSE
  /\ pc = "parse"
  /\ remote \in {r \in [Codes -> UNION {Remotes(c) : c \in Codes}
                                   \cup {[n |-> 0, mode |-> "paged"]}] :
                   \A c \in Codes :
                     IF c <= report_file THEN r[c] \in Remotes(c)
                     ELSE r[c] = [n |-> 0, mode |-> "paged"]}
  /\ cache = [c \in Codes |-> NoFile]
  /\ fund_codes = <<>>
  /\ fund_data = <<>>
  /\ i = 1
  /\ report = <<>>
  /\ attempt_number = 1
  /\ latest_local_date = NoDate
  /\ local_df = <<>>
  /\ driver = FALSE
  /\ open_handles = 0
  /\ nav = Wave
  /\ all_data = <<>>
  /\ page_index = 1
  /\ found_new_data = FALSE
  /\ exc = "none"
  /\ ret = <<>>
  /\ delivered = "none"
  /\ requested = <<>>
  /\ fault = "none"
  /\ attempts = <<>>
  /\ last = [c \in Codes |-> NoCall]

\* a fault was injected in the current call of the fetch
Faulty == fault # "none" \/ \E k \in DOMAIN attempts : attempts[k].fault # "none"

\* the environment injects faults in one call of the fetch per behaviour, and
\* one fault per attempt
MayFail == fault = "none" /\ (Faulty \/ ~faulty_call)

\* the environment chose outcome o
Injected(o) == faulty_call' = (faulty_call \/ FaultClass(o) # "none")

fetchLocals == <<latest_local_date, local_df, all_data, page_index, found_new_data>>

\* ---- _parse_report -----------------------------------------------------------

\* the sorted, duplicate-free codes found in the report file (codes 1..k), or
\* FileNotFoundError, which ends the script
ParseReport ==
  /\ pc = "parse"
  /\ IF report_file >= 0
     THEN /\ fund_codes' = [j \in 1..report_file |-> j]
          /\ pc' = "funds"
     ELSE /\ fund_codes' = fund_codes
          /\ pc' = "aborted"
  /\ UNCHANGED <<nav, open_handles, run, report_file, faulty_call, remote, cache, fund_data, i,
                 report, attempt_number, fetchLocals, driver, exc, ret,
                 delivered, requested, fault, attempts, last>>

\* ---- get_fund_data: the head of the loop, the call of the decorated method ---

BeginFund ==
  /\ pc = "funds"
  /\ i <= Len(fund_codes)
  /\ attempt_number' = 1
  /\ attempts' = <<>>
  /\ delivered' = "none"
  /\ ret' = <<>>
  /\ pc' = "call"
  /\ UNCHANGED <<nav, open_handles, run, report_file, faulty_call, remote, cache, fund_codes,
                 fund_data, i, report, fetchLocals, driver, exc, requested,
                 fault, last>>

\* ---- _get_fund_data_from_eastmoney: one attempt ------------------------------

\* the local file is read, then the driver is installed and started
StartAttempt ==
  /\ pc = "call"
  /\ latest_local_date' = LatestLocalDate(cache[fund_codes[i]])
  /\ local_df' = LocalDf(cache[fund_codes[i]])
  /\ all_data' = <<>>
  /\ page_index' = 1
  /\ found_new_data' = FALSE
  /\ requested' = <<>>
  /\ ret' = <<>>
  /\ \E o \in DriverStarts(Faulty \/ ~faulty_call) :
       /\ driver' = (o = "ok")
       /\ open_handles' = IF o = "ok" THEN open_handles + 1 ELSE open_handles
       /\ exc' = IF o = "ok" THEN "none" ELSE o
       /\ fault' = FaultClass(o)
       /\ Injected(o)
       /\ pc' = IF o = "ok" THEN "pages" ELSE "finally"
  /\ UNCHANGED <<nav, run, report_file, remote, cache, fund_codes, fund_data, i,
                 report, attempt_number, delivered, attempts, last>>

\* the rows of a page that are appended to all_data
NewRows(df, latest) ==
  IF latest # NoDate THEN SelectSeq(df, LAMBDA d : IsNew(d, latest)) ELSE df

\* a bug: a short page does not end the loop
NeverLast(df) == FALSE

\* len(df) < 20
LastPage(df) == Len(df) < FullPage

\* a bug: with a cached latest date the loop is left after the first page
BreakAtOnce(df, latest) == latest # NoDate \/ LastPage(df)

\* the loop is left after this page: no new row on a full page, or a short page
Break(df, latest) ==
  \/ latest # NoDate /\ NewRows(df, latest) = <<>> /\ Len(df) = FullPage
  \/ LastPage(df)

\* one iteration of the while loop: page page_index is requested and parsed
LoadPage ==
  /\ pc = "pages"
  /\ page_index <= max_pages
  /\ requested' = Append(requested, page_index)
  /\ \E kind \in Responses(page_index, MayFail) :
     /\ fault' = IF kind = "rows" THEN fault ELSE FaultClass(kind)
     /\ Injected(kind)
     /\
       \* TimeoutException: logged and raised again
       \/ /\ kind = "timeout"
          /\ exc' = "TimeoutException"
          /\ pc' = "finally"
          /\ UNCHANGED <<all_data, page_index, found_new_data>>
       \* any other exception, or an empty table: break
       \/ /\ kind \in {"transport", "parse", "empty"}
          /\ pc' = "merge"
          /\ UNCHANGED <<all_data, page_index, found_new_data, exc>>
       \/ /\ kind \in {"rows", "garbled"}
          /\ LET df     == IF kind = "rows"
                           THEN PageRows(remote[fund_codes[i]], page_index)
                           ELSE <<>>
                 new_df == NewRows(df, latest_local_date)
                 add    == latest_local_date = NoDate \/ new_df # <<>>
             IN  /\ all_data' = IF add THEN Append(all_data, new_df) ELSE all_data
                 /\ found_new_data' = (found_new_data \/ add)
                 /\ IF Break(df, latest_local_date)
                    THEN /\ page_index' = page_index
                         /\ pc' = "merge"
                    ELSE /\ page_index' = page_index + 1
                         /\ pc' = IF page_index + 1 <= max_pages
                                  THEN "pages" ELSE "merge"
          /\ UNCHANGED exc
  /\ UNCHANGED <<nav, open_handles, run, report_file, remote, cache, fund_codes, fund_data, i,
                 report, attempt_number, latest_local_date, local_df, driver,
                 ret, delivered, attempts, last>>

\* pd.concat(all_data).drop_duplicates(subset=['date']).sort_values(by='date')
NewFullDf(dfs) == SortValues(DropDuplicates(Concat(dfs)))

\* pd.concat([local_df, new_full_df]).drop_duplicates(...).sort_values(...)
Combined(local, new_full_df) ==
  IF local # <<>> THEN SortValues(DropDuplicates(local \o new_full_df))
  ELSE new_full_df

\* after the loop: the new rows are saved and the DataFrame is returned
MergeAndReturn ==
  /\ pc = "merge"
  /\ IF all_data # <<>>
     THEN LET new_full_df == NewFullDf(all_data)
              df_combined == Tail_(Combined(local_df, new_full_df), TailRows)
          IN  /\ cache' = IF found_new_data
                          THEN [cache EXCEPT ![fund_codes[i]] =
                                  SaveToLocalFile(@, new_full_df)]
                          ELSE cache
              \* df_combined['date'].iloc[-1] of an empty frame: IndexError
              /\ exc' = IF df_combined = <<>> THEN "IndexError" ELSE "none"
              /\ ret' = df_combined
     ELSE /\ cache' = cache
          /\ exc' = IF local_df # <<>> THEN "none" ELSE "ValueError"
          /\ ret' = Tail_(local_df, TailRows)
  /\ pc' = "finally"
  /\ UNCHANGED <<nav, open_handles, run, report_file, faulty_call, remote, fund_codes, fund_data,
                 i, report, attempt_number, fetchLocals, driver, delivered,
                 requested, fault, attempts, last>>

\* a bug: the handle is quit only when the attempt returns
QuitOnReturn(drv, n, e) == IF drv /\ e = "none" THEN n - 1 ELSE n

\* finally: if driver: driver.quit(), whatever exception e is pending; a quit
\* that raises has still ended the session
AfterFinally(drv, n, e) == IF drv THEN n - 1 ELSE n

\* except: the error is logged and raised again; finally: driver.quit(), which
\* may itself raise a WebDriverException that replaces the outcome
Finally ==
  /\ pc = "finally"
  /\ IF driver
     THEN \E o \in DriverQuits(MayFail) :
            /\ exc' = IF o = "ok" THEN exc ELSE o
            /\ ret' = IF o = "ok" THEN ret ELSE <<>>
            /\ fault' = IF o = "ok" THEN fault ELSE FaultClass(o)
            /\ Injected(o)
     ELSE UNCHANGED <<exc, ret, fault, faulty_call>>
  /\ driver' = FALSE
  /\ open_handles' = AfterFinally(driver, open_handles, exc)
  /\ pc' = "tenacity"
  /\ UNCHANGED <<nav, run, report_file, remote, cache, fund_codes, fund_data, i,
                 report, attempt_number, fetchLocals, delivered, requested,
                 attempts, last>>

\* ---- the tenacity.retry decorator --------------------------------------------

\* reraise is not set: when the attempts are used up a RetryError is raised
\* from the last exception
RetryErrorOf(e) == "RetryError"

\* the attempt has ended: return its value, retry it, or raise
Tenacity ==
  /\ pc = "tenacity"
  /\ attempts' = Append(attempts, [exc |-> exc, fault |-> fault])
  /\ IF exc # "none" /\ RetryIf(exc) /\ ~Stop(attempt_number)
     THEN /\ attempt_number' = attempt_number + 1
          /\ pc' = "call"
          /\ delivered' = delivered
     ELSE /\ attempt_number' = attempt_number
          /\ pc' = "process"
          /\ delivered' = IF exc # "none" /\ RetryIf(exc)
                          THEN RetryErrorOf(exc) ELSE exc
  /\ latest_local_date' = NoDate
  /\ local_df' = <<>>
  /\ all_data' = <<>>
  /\ page_index' = 1
  /\ found_new_data' = FALSE
  /\ requested' = <<>>
  /\ fault' = "none"
  /\ exc' = "none"
  /\ UNCHANGED <<nav, open_handles, run, report_file, faulty_call, remote, cache, fund_codes,
                 fund_data, i, report, driver, ret, last>>

\* ---- get_fund_data: the body of the loop after the call -----------------------

\* the value recorded for the fund: indicators, or None when the call raised
\* or returned fewer than 14 rows
Result(e, df) == IF e = "none" /\ Enough(df) THEN Snapshot(df) ELSE None

Process ==
  /\ pc = "process"
  /\ fund_data' = Record(fund_data, fund_codes[i], Result(delivered, ret))
  /\ last' = [last EXCEPT ![fund_codes[i]] =
                [valid |-> ~Faulty, remote |-> remote[fund_codes[i]],
                 cache |-> cache[fund_codes[i]], delivered |-> delivered,
                 ret |-> ret]]
  /\ i' = i + 1
  /\ pc' = "funds"
  /\ UNCHANGED <<nav, open_handles, run, report_file, faulty_call, remote, cache, fund_codes,
                 report, attempt_number, fetchLocals, driver, exc, ret,
                 delivered, requested, fault, attempts>>

\* ---- generate_report ---------------------------------------------------------

GenerateReport ==
  /\ pc = "funds"
  /\ i > Len(fund_codes)
  /\ report' = IF fund_codes = <<>> THEN <<Placeholder>>
               ELSE Rows(fund_codes, fund_data)
  /\ pc' = "done"
  /\ UNCHANGED <<nav, open_handles, run, report_file, faulty_call, remote, cache, fund_codes,
                 fund_data, i, attempt_number, fetchLocals, driver, exc, ret,
                 delivered, requested, fault, attempts, last>>

\* ---- the next run of the script ------------------------------------------------

\* the site has published more records for every fund; a new MarketMonitor is
\* constructed, the files of fund_data stay
NewRun ==
  /\ pc \in {"done", "aborted"}
  /\ run < MaxRuns
  /\ run' = run + 1
  /\ \E g \in Publish :
       remote' = [c \in Codes |-> IF c <= report_file
                                   THEN [remote[c] EXCEPT !.n = @ + g]
                                   ELSE remote[c]]
  /\ fund_codes' = <<>>
  /\ fund_data' = <<>>
  /\ i' = 1
  /\ report' = <<>>
  /\ attempt_number' = 1
  /\ attempts' = <<>>
  /\ delivered' = "none"
  /\ ret' = <<>>
  /\ pc' = "parse"
  /\ UNCHANGED <<nav, open_handles, report_file, faulty_call, cache, fetchLocals, driver, exc,
                 requested, fault, last>>

Next ==
  \/ ParseReport
  \/ BeginFund
  \/ StartAttempt
  \/ LoadPage
  \/ MergeAndReturn
  \/ Finally
  \/ Tenacity
  \/ Process
  \/ GenerateReport
  \/ NewRun

Spec == Init /\ [][Next]_vars

\* ---- generate_report on the snapshots of one fund -------------------------------

\* values of rsi and ma_ratio around the limits of the advice rules, and NaN
RsiInputs == {NaN} \cup {<<n, 1>> : n \in {0, 20, 29, 30, 31, 50, 69, 70, 71, 75, 100}}

MaRatioInputs ==
  {NaN} \cup {<<n, 100>> : n \in {50, 79, 80, 81, 100, 119, 120, 121, 150}}

\* the state after get_fund_data has recorded the indicators of the one fund
\* of the report
ClassifyInit ==
  /\ run = 1
  /\ nav = Wave
  /\ report_file = 1
  /\ faulty_call = FALSE
  /\ pc = "funds"
  /\ remote = [c \in Codes |-> [n |-> IF c = 1 THEN FullPage ELSE 0, mode |-> "paged"]]
  /\ cache = [c \in Codes |-> IF c = 1
                               THEN [exists |-> TRUE, recs |-> PageOf(FullPage, 1)]
                               ELSE NoFile]
  /\ fund_codes = <<1>>
  /\ \E rsi \in RsiInputs, ma_ratio \in MaRatioInputs :
       fund_data = Record(<<>>, 1, [none |-> FALSE, latest_net_value |-> Val(FullPage),
                                    rsi |-> rsi, ma_ratio |-> ma_ratio])
  /\ i = 2
  /\ report = <<>>
  /\ attempt_number = 1
  /\ latest_local_date = NoDate
  /\ local_df = <<>>
  /\ driver = FALSE
  /\ open_handles = 0
  /\ all_data = <<>>
  /\ page_index = 1
  /\ found_new_data = FALSE
  /\ exc = "none"
  /\ ret = SortValues(PageOf(FullPage, 1))
  /\ delivered = "none"
  /\ requested = <<>>
  /\ fault = "none"
  /\ attempts = <<[exc |-> "none", fault |-> "none"]>>
  /\ last = [c \in Codes |-> NoCall]

SpecClassify == ClassifyInit /\ [][GenerateReport]_vars

\* ---- get_fund_data on the series one fetch returned ------------------------------

\* lengths of the returned series: the minimum, and longer than the RSI window
IndicatorLens == MinRows..(MinRows + 3)

\* daily moves of the net value
Slopes == {-1, 0, 1, 2}

\* the state when the fetch of the one fund of the report has returned a
\* series of len rows, read from a site without a cache file
IndicatorsInit ==
  \E len \in IndicatorLens :
    /\ run = 1
    /\ report_file = 1
    /\ faulty_call = FALSE
    /\ pc = "process"
    /\ remote = [c \in Codes |-> [n |-> IF c = 1 THEN len ELSE 0, mode |-> "paged"]]
    /\ cache = [c \in Codes |-> IF c = 1
                                 THEN [exists |-> TRUE, recs |-> SortValues(PageOf(len, 1))]
                                 ELSE NoFile]
    /\ fund_codes = <<1>>
    /\ fund_data = <<>>
    /\ i = 1
    /\ report = <<>>
    /\ attempt_number = 1
    /\ latest_local_date = NoDate
    /\ local_df = <<>>
    /\ driver = FALSE
    /\ open_handles = 0
    /\ nav \in [kind : {"steps"}, a : 0..(len - 1), x : Slopes, y : Slopes]
    /\ all_data = <<>>
    /\ page_index = 1
    /\ found_new_data = FALSE
    /\ exc = "none"
    /\ ret = SortValues(PageOf(len, 1))
    /\ delivered = "none"
    /\ requested = <<>>
    /\ fault = "none"
    /\ attempts = <<[exc |-> "none", fault |-> "none"]>>
    /\ last = [c \in Codes |-> NoCall]

IndicatorsNext == Process \/ GenerateReport

SpecIndicators == IndicatorsInit /\ [][IndicatorsNext]_vars

\* ==== properties ==================================================================

IsPrefix(s, t) == Len(s) <= Len(t) /\ SubSeq(t, 1, Len(s)) = s

StrictlyIncreasing(s) == \A k \in 1..(Len(s) - 1) : s[k] < s[k + 1]

Retryable == {"TimeoutException", "WebDriverException"}

InAttempt == pc \in {"call", "pages", "merge", "finally", "tenacity"}

\* the fund the script is fetching, and the fund it has just recorded
Current == fund_codes[i]

Recorded == fund_codes[i - 1]

\* C1: get_fund_data records a result for every fund, in list order, whatever
\* happens to the funds before it; at every position before the report is
\* written the script has a next step; generate_report writes exactly one row per fund, in list order,
\* the row of a fund without indicators carrying the failure marker.
C1_OneRowPerFund ==
  /\ DOMAIN fund_data = {fund_codes[k] : k \in 1..(i - 1)}
  /\ i <= Len(fund_codes) + 1
  /\ pc \in {"call", "pages", "merge", "finally", "tenacity", "process"} =>
       i \in DOMAIN fund_codes
  /\ pc = "pages" => page_index <= max_pages
  /\ pc \in {"parse", "funds", "call", "pages", "merge", "finally", "tenacity",
             "process", "done", "aborted"}
  /\ pc = "done" =>
       /\ i = Len(fund_codes) + 1
       /\ fund_codes # <<>> =>
            /\ Len(report) = Len(fund_codes)
            /\ \A k \in DOMAIN report :
                 /\ report[k].code = fund_codes[k]
                 /\ report[k].failed = fund_data[fund_codes[k]].none
       /\ fund_codes = <<>> => report = <<Placeholder>>

\* C1 witness: the first fund failed, the second was processed after it and
\* has indicators, and the report holds both rows.
C1_Witness ==
  /\ pc = "done"
  /\ Len(fund_codes) = 2
  /\ fund_data[1].none /\ ~fund_data[2].none
  /\ Len(report) = 2 /\ report[1].failed /\ ~report[2].failed

\* C2: every step leaves the records of an existing cache file as a prefix of
\* the records of the file after the step, and a file that is created holds
\* the whole fetched series: the rows of all pages parsed, each page in full.
C2_AppendOnly ==
  [][\A c \in Codes :
       /\ cache[c].exists =>
            cache'[c].exists /\ IsPrefix(cache[c].recs, cache'[c].recs)
       /\ ~cache[c].exists /\ cache'[c].exists =>
            /\ Range(cache'[c].recs) = UNION {Range(all_data[k]) : k \in DOMAIN all_data}
            /\ \A k \in DOMAIN all_data :
                 all_data[k] \in {PageRows(remote[c], k), <<>>}]_vars

\* C2 witness: an attempt that found a cache file with records has appended
\* new rows to it.
C2_Witness ==
  /\ pc = "finally"
  /\ local_df # <<>>
  /\ all_data # <<>>
  /\ Len(cache[Current].recs) > Len(local_df)

\* C3: the dates of every cache file and of every returned DataFrame are
\* strictly increasing.
C3_StrictlyIncreasing ==
  /\ \A c \in Codes : StrictlyIncreasing(cache[c].recs)
  /\ StrictlyIncreasing(ret)
  /\ StrictlyIncreasing(local_df)

\* C3 witness: the pages of an attempt held the same dates twice, and the
\* attempt has saved and returned its rows.
C3_Witness ==
  /\ pc = "finally"
  /\ Len(all_data) >= 2
  /\ all_data[1] # <<>> /\ all_data[1] = all_data[2]
  /\ ret # <<>>
  /\ cache[Current].recs # <<>>

\* C4: a call of the fetch that meets no fault, after a call for the same
\* fund that met no fault, against the same remote history, leaves the cache
\* file as that call left it and ends as that call ended, with the same
\* DataFrame.
C4_Idempotent ==
  (/\ pc = "process"
   /\ last[Current].valid
   /\ ~Faulty
   /\ last[Current].remote = remote[Current])
  => /\ cache[Current] = last[Current].cache
     /\ delivered = last[Current].delivered
     /\ ret = last[Current].ret

\* C4 witness: such a second call, of a fund with a cache of at least a page.
C4_Witness ==
  /\ pc = "process"
  /\ last[Current].valid
  /\ ~Faulty
  /\ last[Current].remote = remote[Current]
  /\ Len(cache[Current].recs) >= FullPage
  /\ ret # <<>>

\* C5: an attempt in which a timeout or transport failure was raised, while
\* the driver started or while a page loaded, ends with a retryable error;
\* there are at most 3 attempts; when every attempt failed the fund is
\* recorded as failed.
C5_TransientFailsAttempt ==
  /\ pc = "tenacity" /\ fault = "transient" => exc \in Retryable
  /\ Len(attempts) <= StopAfterAttempt
  /\ (pc = "funds" /\ i > 1 /\ attempts # <<>>
        /\ \A k \in DOMAIN attempts : attempts[k].exc # "none")
       => fund_data[Recorded].none

\* C6: when attempts 1 and 2 raised a transient error and attempt 3 returned,
\* the call returns to get_fund_data and the fund is not recorded as failed.
C6_ThirdAttemptSucceeds ==
  (/\ pc = "funds" /\ i > 1
   /\ Len(attempts) = 3
   /\ attempts[1].exc \in Retryable
   /\ attempts[2].exc \in Retryable
   /\ attempts[3].exc = "none")
  => /\ delivered = "none"
     /\ ~fund_data[Recorded].none

\* C7: when attempt 1 raised an error that is neither a TimeoutException nor a
\* WebDriverException, there is no attempt 2 and get_fund_data gets that error.
C7_NoRetryOfOtherErrors ==
  (/\ attempts # <<>>
   /\ attempts[1].exc \notin Retryable \cup {"none"})
  => /\ Len(attempts) = 1
     /\ attempt_number = 1
     /\ ~InAttempt
     /\ delivered = attempts[1].exc

\* C7 witness: attempt 1 raised ValueError and the call has ended.
C7_Witness ==
  /\ pc = "process"
  /\ Len(attempts) = 1
  /\ attempts[1].exc = "ValueError"
  /\ delivered = "ValueError"

\* C8: when all 3 attempts raised a transient error there is no attempt 4,
\* get_fund_data gets the error of the last attempt, records the fund as
\* failed and goes on.
C8_OriginalErrorDelivered ==
  /\ attempt_number <= StopAfterAttempt
  /\ (/\ Len(attempts) = StopAfterAttempt
      /\ \A k \in DOMAIN attempts : attempts[k].exc \in Retryable)
     => /\ ~InAttempt
        /\ delivered = attempts[StopAfterAttempt].exc
        /\ pc = "funds" => i > 1 /\ fund_data[Recorded].none

\* the pages of an attempt are requested in the order 1, 2, 3, ..., each once,
\* at most 200 of them, and the loop goes on only after full pages
PagesInOrder ==
  /\ \A k \in DOMAIN requested : requested[k] = k
  /\ Len(requested) <= max_pages
  /\ pc = "pages" =>
       /\ page_index = Len(requested) + 1
       /\ \A k \in DOMAIN requested :
            Len(PageRows(remote[Current], k)) = FullPage

\* an attempt without fault has read a site that serves pages of sizes
\* [20, 20, 15], and has merged
ReadThreePages ==
  /\ pc = "finally"
  /\ driver
  /\ fault = "none"
  /\ remote[Current] = [n |-> 2 * FullPage + 15, mode |-> "paged"]

\* C9 (as stated): the pages are requested in order and the loop ends; for
\* page sizes [20, 20, 15] exactly three pages are requested and the result is
\* the union of their rows.
C9_ThreePagesAlways ==
  /\ PagesInOrder
  /\ ReadThreePages =>
       /\ requested = <<1, 2, 3>>
       /\ Range(ret) = 1..(2 * FullPage + 15)

\* C9 (amended): the pages are requested in order and the loop ends; for page
\* sizes [20, 20, 15] and no cached latest date exactly three pages are
\* requested and the result is the union of their rows; with a cached latest
\* date the loop may end before, and only on a full page without a new row.
C9_ThreePagesWithoutCache ==
  /\ PagesInOrder
  /\ ReadThreePages /\ latest_local_date = NoDate =>
       /\ requested = <<1, 2, 3>>
       /\ Range(ret) = 1..(2 * FullPage + 15)
       /\ Len(ret) = 2 * FullPage + 15
  /\ ReadThreePages /\ latest_local_date # NoDate /\ Len(requested) < 3 =>
       LET df == PageRows(remote[Current], Len(requested))
       IN  Len(df) = FullPage /\ \A k \in DOMAIN df : df[k] <= latest_local_date

\* C9 witness: three pages read without a cache file, 55 rows returned.
C9_Witness ==
  /\ ReadThreePages
  /\ latest_local_date = NoDate
  /\ requested = <<1, 2, 3>>
  /\ Len(ret) = 2 * FullPage + 15

\* the safety cap is reached: an attempt has requested 200 full pages
CapReached == pc = "merge" /\ Len(requested) = max_pages

\* C10: an attempt in which a page could not be parsed or held nothing ends
\* with an error that is not retried, and the fund is recorded as failed.
C10_FormatErrorFails ==
  /\ pc = "tenacity" /\ fault = "format" => exc \notin Retryable \cup {"none"}
  /\ (pc = "funds" /\ i > 1
        /\ \E k \in DOMAIN attempts : attempts[k].fault = "format")
       => fund_data[Recorded].none


\* C11: when the call of the fetch ends with an error, the cache file of the
\* fund is exactly as it was before the call; no file is created by a fetch
\* without rows.
C11_FailureLeavesCache ==
  (pc = "process" /\ delivered # "none") => cache[Current] = last[Current].cache


\* C12: when a call of the fetch that met no fault finds a cache file with
\* records and leaves it as it was (no row of the site is newer than the
\* cached maximum), it returns the last 100 records of the file and the fund is
\* recorded with indicators.
C12_NoNewRecordsIsSuccess ==
  (/\ pc = "process"
   /\ ~Faulty
   /\ last[Current].cache.recs # <<>>
   /\ cache[Current] = last[Current].cache)
  => /\ delivered = "none"
     /\ ret = Tail_(cache[Current].recs, TailRows)
     /\ ~Result(delivered, ret).none


\* C13: at most one browser handle is open at any time; a handle is open only
\* inside an attempt, between the start of the driver and the finally block,
\* and none is open between attempts, between funds or after the report is
\* written, whether the attempt returned, raised a timeout for the retry,
\* raised another error or left the page loop by break.
C13_HandleReleased ==
  /\ open_handles \in {0, 1}
  /\ open_handles = 1 <=> driver
  /\ driver => pc \in {"pages", "merge", "finally"}
  /\ pc \in {"parse", "funds", "call", "tenacity", "process", "done", "aborted"} =>
       open_handles = 0

\* C13 witness: an attempt that had started the driver and requested pages
\* has ended with a timeout raised for the retry, and no handle is open.
C13_Witness ==
  /\ pc = "tenacity"
  /\ exc = "TimeoutException"
  /\ requested # <<>>
  /\ ~driver
  /\ open_handles = 0


\* a number that is not NaN and is above / below a / b
Above(x, a, b) == x[2] # 0 /\ x[1] * b > a * x[2]

Below(x, a, b) == x[2] # 0 /\ x[1] * b < a * x[2]

\* the report of one fund with indicators has been written
Classified == pc = "done" /\ Len(report) = 1 /\ ~report[1].failed

\* C14: the advice written for a snapshot is that of the first rule that
\* matches, in the order wait_for_pullback (rsi above 70 or ma_ratio above
\* 1.2), buy_in_batches (rsi NaN or in 30..70, and ma_ratio NaN or in
\* 0.8..1.2), accumulate (rsi below 30), observe; (75, NaN) gives
\* wait_for_pullback, (50, 1.0) buy_in_batches, (20, NaN) accumulate.
C14_FirstMatchingRule ==
  Classified =>
    LET r  == fund_data[1].rsi
        m  == fund_data[1].ma_ratio
        a  == report[1].advice
        R1 == Above(r, 70, 1) \/ Above(m, 12, 10)
        R2 == /\ IsNaN(r) \/ (~Below(r, 30, 1) /\ ~Above(r, 70, 1))
              /\ IsNaN(m) \/ (~Below(m, 8, 10) /\ ~Above(m, 12, 10))
        R3 == Below(r, 30, 1)
    IN  /\ R1 => a = "wait_for_pullback"
        /\ ~R1 /\ R2 => a = "buy_in_batches"
        /\ ~R1 /\ ~R2 /\ R3 => a = "accumulate"
        /\ ~R1 /\ ~R2 /\ ~R3 => a = "observe"
        /\ r = <<75, 1>> /\ IsNaN(m) => a = "wait_for_pullback"
        /\ r = <<50, 1>> /\ m = <<100, 100>> => a = "buy_in_batches"
        /\ r = <<20, 1>> /\ IsNaN(m) => a = "accumulate"

\* C14 witness: a snapshot that matches the rule of wait_for_pullback (ma_ratio
\* 1.5) and the rule of accumulate (rsi 20) got wait_for_pullback.
C14_Witness ==
  /\ Classified
  /\ fund_data[1].rsi = <<20, 1>>
  /\ fund_data[1].ma_ratio = <<150, 100>>
  /\ report[1].advice = "wait_for_pullback"

\* C15 (as stated): a snapshot whose rsi and ma_ratio are both NaN gets the
\* advice observe.
C15_BothUndefinedObserve ==
  (Classified /\ IsNaN(fund_data[1].rsi) /\ IsNaN(fund_data[1].ma_ratio))
  => report[1].advice = "observe"

\* C15 (amended): a snapshot whose rsi and ma_ratio are both NaN gets the
\* advice buy_in_batches; observe is the advice exactly when ma_ratio is below
\* 0.8 and rsi is NaN or in 30..70.
C15_BothUndefinedBuyInBatches ==
  /\ (Classified /\ IsNaN(fund_data[1].rsi) /\ IsNaN(fund_data[1].ma_ratio))
     => report[1].advice = "buy_in_batches"
  /\ Classified =>
       (report[1].advice = "observe" <=>
          /\ Below(fund_data[1].ma_ratio, 8, 10)
          /\ \/ IsNaN(fund_data[1].rsi)
             \/ ~Below(fund_data[1].rsi, 30, 1) /\ ~Above(fund_data[1].rsi, 70, 1))

\* C15 witness: the report row of a snapshot with both values NaN.
C15_Witness ==
  /\ Classified
  /\ IsNaN(fund_data[1].rsi)
  /\ IsNaN(fund_data[1].ma_ratio)
  /\ report[1].advice = "buy_in_batches"


\* the net value falls from row j - 1 to row j, for a row j of the window that
\* ends at row k
FallsIn(v, k) ==
  \E j \in 2..k : j > k - RsiWindow /\ v[j] < v[j - 1]

\* C16: for a returned series of at least 14 rows with increasing dates, the
\* rsi at every position is NaN or lies in 0..100; it is NaN exactly when the
\* net value falls nowhere in the window of up to 14 rows that ends there; the
\* fund is recorded with the rsi of the last position.
C16_RsiInRange ==
  (/\ pc \in {"funds", "done"}
   /\ 1 \in DOMAIN fund_data
   /\ Len(ret) >= MinRows
   /\ StrictlyIncreasing(ret))
  => LET v == NetValues(ret)
     IN  /\ \A k \in DOMAIN v :
              LET r == RsiAt(v, k)
              IN  /\ IsNaN(r) <=> ~FallsIn(v, k)
                  /\ ~IsNaN(r) => r[2] > 0 /\ 0 <= r[1] /\ r[1] <= 100 * r[2]
         /\ ~fund_data[1].none
         /\ fund_data[1].rsi = RsiAt(v, Len(v))

\* C16 witness: a fund recorded with rsi NaN, the net value having risen in
\* the last window, while the rsi of an earlier position is a number.
C16_Witness ==
  /\ pc = "funds"
  /\ 1 \in DOMAIN fund_data
  /\ ~fund_data[1].none
  /\ IsNaN(fund_data[1].rsi)
  /\ fund_data[1].latest_net_value > Val(1)
  /\ \E k \in DOMAIN ret : ~IsNaN(RsiAt(NetValues(ret), k))


\* C17: a fund whose fetch returned a series of fewer than 14 rows is not
\* reported with the marker of a failed retrieval.
C17_InsufficientIsNotFailure ==
  pc = "done" =>
    \A k \in DOMAIN fund_codes :
      (/\ last[fund_codes[k]].delivered = "none"
       /\ last[fund_codes[k]].ret # <<>>
       /\ Len(last[fund_codes[k]].ret) < MinRows)
      => ~report[k].failed


\* the dates 1..n in ascending order
Ascending(lo, hi) == [k \in 1..(hi - lo + 1) |-> lo + k - 1]

\* a call of the fetch that met no fault has ended, against a site that serves
\* its records newest first in pages of 20
CleanCallEnded ==
  /\ pc = "process"
  /\ ~Faulty
  /\ remote[Current].mode = "paged"

\* C18: after a call of the fetch without fault the cache file holds the
\* records it held before the call, followed by every record of the site
\* dated after the maximum date it held, in ascending order, and nothing else;
\* a call that found no record in a cache file leaves the whole series of the
\* site in the file.
C18_DeltaComplete ==
  CleanCallEnded =>
    LET prev == last[Current].cache.recs
        n    == remote[Current].n
    IN  /\ prev # <<>> =>
             cache[Current].recs =
               prev \o (IF n > Max(Range(prev))
                        THEN Ascending(Max(Range(prev)) + 1, n) ELSE <<>>)
        /\ prev = <<>> => cache[Current].recs = Ascending(1, n)

\* C18 witness: such a call has appended more than a page of new records to a
\* cache file with records.
C18_Witness ==
  /\ CleanCallEnded
  /\ last[Current].cache.recs # <<>>
  /\ Len(cache[Current].recs) > Len(last[Current].cache.recs) + FullPage


\* C19: when a run has ended, the cache file of a fund holds every record of
\* the site dated between the earliest and the latest date in the file.
C19_NoHole ==
  pc = "done" =>
    \A c \in Codes :
      (cache[c].recs # <<>> /\ remote[c].mode = "paged") =>
        \A d \in 1..remote[c].n :
          (/\ \E k \in DOMAIN cache[c].recs : cache[c].recs[k] <= d
           /\ \E k \in DOMAIN cache[c].recs : cache[c].recs[k] >= d)
          => d \in Range(cache[c].recs)


\* C20: in the attempts of one call of the fetch no record is appended to the
\* cache file twice: the file keeps the records it held before the call as a
\* prefix and holds no date twice; an attempt that ends with a timeout has
\* left the file as it found it; an attempt starts at page 1 with no page
\* kept; an attempt that follows attempts of the same call that appended
\* records appends nothing.
C20_NoDoubleAppend ==
  InAttempt =>
    /\ IsPrefix(last[Current].cache.recs, cache[Current].recs)
    /\ Cardinality(Range(cache[Current].recs)) = Len(cache[Current].recs)
    /\ (pc = "tenacity" /\ exc = "TimeoutException") =>
         /\ cache[Current].recs = local_df
         /\ attempt_number = 1 => cache[Current] = last[Current].cache
    /\ (pc = "pages" /\ requested = <<>>) => page_index = 1 /\ all_data = <<>>
    /\ (pc \in {"finally", "tenacity"} /\ local_df # last[Current].cache.recs) =>
         cache[Current].recs = local_df

\* C20 witness: attempt 1 appended records and failed when the driver quit;
\* attempt 2 has returned and the file is as attempt 1 left it.
C20_Witness ==
  /\ pc = "tenacity"
  /\ attempt_number = 2
  /\ attempts[1].exc = "WebDriverException"
  /\ local_df # last[Current].cache.recs
  /\ exc = "none"
  /\ ret # <<>>
  /\ cache[Current].recs = local_df

====
